---- MODULE Spec2Model ----
(***************************************************************************)
(* Model of the chat front end of We-make-devs: the query interpreter      *)
(* parseUserQuery and the backend gateway of src/src/services/api.js, and  *)
(* the chat page of src/src/app/root/page.jsx that drives them.            *)
(*                                                                         *)
(* A JavaScript string is modelled as a sequence of UTF-16 code units;     *)
(* a code unit is a one-character TLA+ string, or a "U+xxxx" name for a    *)
(* code unit outside ASCII.                                                *)
(***************************************************************************)
EXTENDS FiniteSets, Integers, Sequences, TLC

(***************************************************************************)
(* Bounds of the model.                                                    *)
(***************************************************************************)
\* the longest generated query, in tokens of QueryTokens
MaxTokens == 5
\* the most messages the user sends in the chat, follow-up questions apart
MaxSends == 2
\* the most follow-up questions the user asks about an uploaded CSV
MaxChats == 1

(***************************************************************************)
(* JavaScript string primitives.                                           *)
(***************************************************************************)
\* the code units of an ASCII string literal
S(str) == [i \in 1..Len(str) |-> SubSeq(str, i, i)]

\* JavaScript null: a value that is no string (no code unit is named "null")
Null == <<"null">>

\* LATIN CAPITAL LETTER I WITH DOT ABOVE and COMBINING DOT ABOVE
CapIDot == "U+0130"
CombDot == "U+0307"

LowerLetters == S("abcdefghijklmnopqrstuvwxyz")
UpperLetters == S("ABCDEFGHIJKLMNOPQRSTUVWXYZ")

\* \s of a regular expression, and the characters trim() strips
WhiteSpace == {" ", "\t", "\n"}
\* the characters . does not match
LineTerminator == {"\n"}

IsSpace(c) == c \in WhiteSpace
IsDot(c) == c \notin LineTerminator

\* the code units of the model
CodeUnits ==
  {LowerLetters[i] : i \in 1..26} \cup {UpperLetters[i] : i \in 1..26}
    \cup WhiteSpace \cup {CapIDot, CombDot}

\* String.prototype.toLowerCase on one code unit: a sequence, since the
\* lower case of U+0130 is the two code units "i" U+0307
LowerOfChar(c) ==
  IF c = CapIDot THEN <<"i", CombDot>>
  ELSE IF \E i \in 1..26 : UpperLetters[i] = c
       THEN <<LowerLetters[CHOOSE i \in 1..26 : UpperLetters[i] = c]>>
       ELSE <<c>>

\* String.prototype.toUpperCase on one code unit
UpperOfChar(c) ==
  IF \E i \in 1..26 : LowerLetters[i] = c
  THEN <<UpperLetters[CHOOSE i \in 1..26 : LowerLetters[i] = c]>>
  ELSE <<c>>

\* the two mappings, tabulated
LowerTable == [c \in CodeUnits |-> LowerOfChar(c)]
UpperTable == [c \in CodeUnits |-> UpperOfChar(c)]

RECURSIVE toLowerCase(_)
toLowerCase(s) ==
  IF s = <<>> THEN <<>> ELSE LowerTable[Head(s)] \o toLowerCase(Tail(s))

RECURSIVE toUpperCase(_)
toUpperCase(s) ==
  IF s = <<>> THEN <<>> ELSE UpperTable[Head(s)] \o toUpperCase(Tail(s))

\* s.slice(from) and s.substring(0, to), with 0-based JavaScript indices
slice(s, from) == SubSeq(s, from + 1, Len(s))
substring0(s, to) == SubSeq(s, 1, IF to > Len(s) THEN Len(s) ELSE to)
charAt0(s) == IF s = <<>> THEN <<>> ELSE <<s[1]>>

\* String.prototype.trim
trim(s) ==
  LET keep == {i \in 1..Len(s) : ~IsSpace(s[i])}
  IN IF keep = {} THEN <<>>
     ELSE SubSeq(s, CHOOSE i \in keep : \A j \in keep : i <= j,
                    CHOOSE i \in keep : \A j \in keep : i >= j)

\* needle occurs in hay at the 1-based position p
OccursAt(hay, needle, p) ==
  /\ p + Len(needle) - 1 <= Len(hay)
  /\ \A k \in 1..Len(needle) : hay[p + k - 1] = needle[k]

\* String.prototype.includes and indexOf (0-based, -1 when absent)
includes(hay, needle) == \E p \in 1..(Len(hay) + 1) : OccursAt(hay, needle, p)
indexOf(hay, needle) ==
  IF includes(hay, needle)
  THEN (CHOOSE p \in 1..(Len(hay) + 1) :
          /\ OccursAt(hay, needle, p)
          /\ \A q \in 1..(p - 1) : ~OccursAt(hay, needle, q)) - 1
  ELSE -1

\* a literal of a regular expression with the i flag matches at p: code units
\* are compared by their upper case
OccursAtI(hay, word, p) ==
  /\ p + Len(word) - 1 <= Len(hay)
  /\ \A k \in 1..Len(word) :
       UpperTable[hay[p + k - 1]] = UpperTable[word[k]]

\* the end (exclusive, 1-based) of the longest run of \s starting at p
RECURSIVE SpaceRunEnd(_, _)
SpaceRunEnd(s, p) ==
  IF p <= Len(s) /\ IsSpace(s[p]) THEN SpaceRunEnd(s, p + 1) ELSE p

\* the end (exclusive, 1-based) of the longest run of . starting at p
RECURSIVE DotRunEnd(_, _)
DotRunEnd(s, p) ==
  IF p <= Len(s) /\ IsDot(s[p]) THEN DotRunEnd(s, p + 1) ELSE p

Min(set) == CHOOSE x \in set : \A y \in set : x <= y
Max(set) == CHOOSE x \in set : \A y \in set : x >= y

(***************************************************************************)
(* parseUserQuery: the regular expressions.                                *)
(***************************************************************************)
commonCities == <<
  S("mumbai"), S("delhi"), S("bangalore"), S("bengaluru"), S("hyderabad"),
  S("ahmedabad"), S("chennai"), S("kolkata"), S("surat"), S("pune"),
  S("jaipur"), S("lucknow"), S("kanpur"), S("nagpur"), S("indore"),
  S("thane"), S("bhopal"), S("visakhapatnam"), S("pimpri"), S("patna"),
  S("vadodara"), S("nashik"), S("meerut"), S("rajkot"), S("varanasi"),
  S("srinagar"), S("aurangabad"), S("dhanbad"), S("amritsar"),
  S("allahabad"), S("gwalior"), S("jabalpur"), S("coimbatore"),
  S("vijayawada"), S("jodhpur"), S("madurai"), S("raipur"), S("kota"),
  S("guwahati") >>

\* (?:in|at|near), in the order of the alternation
Connectors == << S("in"), S("at"), S("near") >>

\* the leading phrases of the business type clean-up, in the order of the
\* alternation
Fillers == <<
  S("open"), S("start"), S("opening"), S("starting"), S("find"),
  S("search"), S("looking for"), S("look for"), S("tell me about"),
  S("show me") >>

Articles == << S("a"), S("an"), S("the") >>

\* \s+(.+) at p, the tail of inPattern: the position where the second group
\* starts (\s+ is greedy and gives back until . matches), or 0
LocationStart(s, p) ==
  LET js == {j \in 1..(SpaceRunEnd(s, p) - p) :
               p + j <= Len(s) /\ IsDot(s[p + j])}
  IN IF js = {} THEN 0 ELSE p + Max(js)

\* (?:in|at|near)\s+(.+) at p: the start of the second group, or 0
ConnectorTail(s, p) ==
  LET is == {i \in 1..Len(Connectors) :
               /\ OccursAtI(s, Connectors[i], p)
               /\ LocationStart(s, p + Len(Connectors[i])) # 0}
  IN IF is = {} THEN 0
     ELSE LocationStart(s, p + Len(Connectors[Min(is)]))

\* \s+(?:in|at|near)\s+(.+) at p: the start of the second group, or 0
AfterGroup1(s, p) ==
  LET ks == {k \in 1..(SpaceRunEnd(s, p) - p) : ConnectorTail(s, p + k) # 0}
  IN IF ks = {} THEN 0 ELSE ConnectorTail(s, p + Max(ks))

\* the ends (exclusive) of the first group (.+) started at st for which the
\* rest of inPattern matches
Group1Ends(s, st) ==
  {e \in (st + 1)..DotRunEnd(s, st) : AfterGroup1(s, e) # 0}

\* inPattern with a lazy first group (.+?): the split at the first connector
inPatternMatchLazy(s) ==
  LET starts == {st \in 1..Len(s) : Group1Ends(s, st) # {}}
  IN IF starts = {} THEN Null
     ELSE LET st == Min(starts)
              e1 == Min(Group1Ends(s, st))
              g2 == AfterGroup1(s, e1)
          IN << SubSeq(s, st, e1 - 1), SubSeq(s, g2, DotRunEnd(s, g2) - 1) >>

\* s.match(/(.+)\s+(?:in|at|near)\s+(.+)/i): Null, or the two groups of the
\* leftmost match with the first group as long as it can be
inPatternMatch(s) ==
  LET starts == {st \in 1..Len(s) : Group1Ends(s, st) # {}}
  IN IF starts = {} THEN Null
     ELSE LET st == Min(starts)
              e1 == Max(Group1Ends(s, st))
              g2 == AfterGroup1(s, e1)
          IN << SubSeq(s, st, e1 - 1), SubSeq(s, g2, DotRunEnd(s, g2) - 1) >>

\* s.replace(/^(w1|w2|...)\s+/i, ""): the first alternative that matches at
\* the start and is followed by white space is removed with that white space
StripLeading(s, words) ==
  LET hits == {i \in 1..Len(words) :
                 /\ OccursAtI(s, words[i], 1)
                 /\ SpaceRunEnd(s, Len(words[i]) + 1) > Len(words[i]) + 1}
  IN IF hits = {} THEN s
     ELSE SubSeq(s, SpaceRunEnd(s, Len(words[Min(hits)]) + 1), Len(s))

\* \s+(in|at|near)\s*$ matches at p
TrailingConnectorAt(s, p) ==
  \E k \in 1..(SpaceRunEnd(s, p) - p) :
    \E i \in 1..Len(Connectors) :
      /\ OccursAtI(s, Connectors[i], p + k)
      /\ SpaceRunEnd(s, p + k + Len(Connectors[i])) = Len(s) + 1

\* s.replace(/\s+(in|at|near)\s*$/i, "")
StripTrailingConnector(s) ==
  LET ps == {p \in 1..Len(s) : TrailingConnectorAt(s, p)}
  IN IF ps = {} THEN s ELSE SubSeq(s, 1, Min(ps) - 1)

\* s.split(" "): the pieces between single spaces
RECURSIVE splitSpace(_)
splitSpace(s) ==
  LET sp == {i \in 1..Len(s) : s[i] = " "}
  IN IF sp = {} THEN << s >>
     ELSE << SubSeq(s, 1, Min(sp) - 1) >>
            \o splitSpace(SubSeq(s, Min(sp) + 1, Len(s)))

\* words.join(" ")
RECURSIVE joinSpace(_)
joinSpace(words) ==
  IF Len(words) = 0 THEN <<>>
  ELSE IF Len(words) = 1 THEN words[1]
  ELSE words[1] \o << " " >> \o joinSpace(Tail(words))

\* word.charAt(0).toUpperCase() + word.slice(1).toLowerCase()
CapitalizeWord(word) ==
  toUpperCase(charAt0(word)) \o toLowerCase(slice(word, 1))

\* s.charAt(0).toUpperCase() + s.slice(1)
CapitalizeFirst(s) == toUpperCase(charAt0(s)) \o slice(s, 1)

(***************************************************************************)
(* parseUserQuery: the steps of the function.                              *)
(***************************************************************************)
\* "Clean up business type": the three replacements and the trim
CleanBusinessType(b) ==
  trim(StripLeading(StripTrailingConnector(StripLeading(b, Fillers)),
                    Articles))

\* "Clean up location": the leading preposition, then every word capitalized
CleanLocation(l) ==
  LET stripped == trim(StripLeading(l, Connectors))
      words == splitSpace(stripped)
  IN joinSpace([i \in 1..Len(words) |-> CapitalizeWord(words[i])])

\* Pattern 1: the business type and the location of a match of inPattern
Pattern1(inMatch) ==
  [businessType |-> trim(inMatch[1]),
   location |-> CapitalizeFirst(trim(inMatch[2]))]

\* Pattern 2 that keeps the whole text as the business type when no city is
\* found, as the integration guide documents for "just coffee"
Pattern2KeepsText(originalQuery, lowerQuery) ==
  LET found == {i \in 1..Len(commonCities) :
                  includes(lowerQuery, commonCities[i])}
  IN IF found = {} THEN [businessType |-> originalQuery, location |-> Null]
     ELSE LET city == commonCities[Min(found)]
              cityIndex == indexOf(lowerQuery, city)
          IN [businessType |-> trim(substring0(originalQuery, cityIndex)),
              location |-> CapitalizeFirst(city)]

\* Pattern 2: the first city of commonCities the lower-cased query includes
Pattern2(originalQuery, lowerQuery) ==
  LET found == {i \in 1..Len(commonCities) :
                  includes(lowerQuery, commonCities[i])}
  IN IF found = {} THEN [businessType |-> Null, location |-> Null]
     ELSE LET city == commonCities[Min(found)]
              cityIndex == indexOf(lowerQuery, city)
          IN [businessType |-> trim(substring0(originalQuery, cityIndex)),
              location |-> CapitalizeFirst(city)]

\* a JavaScript value is truthy: neither null nor the empty string
Truthy(v) == v # Null /\ v # <<>>

\* the returned object without "|| null": an empty string stays in the field
ParsedQueryKeepsEmpty(businessType, location) ==
  [businessType |-> businessType,
   location |-> location,
   needsClarification |-> ~Truthy(businessType) \/ ~Truthy(location)]

\* the object parseUserQuery returns
ParsedQuery(businessType, location) ==
  [businessType |-> IF Truthy(businessType) THEN businessType ELSE Null,
   location |-> IF Truthy(location) THEN location ELSE Null,
   needsClarification |-> ~Truthy(businessType) \/ ~Truthy(location)]

\* what a caller of parseUserQuery gets when it throws
TypeError == [threw |-> "TypeError"]

\* the city scan consulted first: Pattern 2 when the query names a known
\* city, else Pattern 1
FindPartsCityFirst(originalQuery, lowerQuery, inMatch) ==
  IF Pattern2(originalQuery, lowerQuery).location # Null
  THEN Pattern2(originalQuery, lowerQuery)
  ELSE IF inMatch # Null THEN Pattern1(inMatch)
  ELSE Pattern2(originalQuery, lowerQuery)

\* Pattern 1 when inPattern matched, else Pattern 2
FindParts(originalQuery, lowerQuery, inMatch) ==
  IF inMatch # Null THEN Pattern1(inMatch)
  ELSE Pattern2(originalQuery, lowerQuery)

\* the clean-up without the "if (location)" guard: .replace is called on null
\* when no pattern found a location
CleanUpUnguarded(found) ==
  IF found.location = Null THEN TypeError
  ELSE ParsedQuery(IF Truthy(found.businessType)
                   THEN CleanBusinessType(found.businessType)
                   ELSE found.businessType,
                   CleanLocation(found.location))

\* "if (businessType)" and "if (location)": the clean-up of what the patterns
\* found, and the returned object
CleanUp(found) ==
  ParsedQuery(IF Truthy(found.businessType)
              THEN CleanBusinessType(found.businessType)
              ELSE found.businessType,
              IF Truthy(found.location)
              THEN CleanLocation(found.location)
              ELSE found.location)

\* originalQuery is query.trim(), lowerQuery is query.toLowerCase().trim()
parseUserQuery(q) ==
  CleanUp(FindParts(trim(q), trim(toLowerCase(q)), inPatternMatch(trim(q))))

(***************************************************************************)
(* JavaScript values that cross the backend gateway: JSON bodies, options  *)
(* and errors.                                                             *)
(***************************************************************************)
JUndefined == [t |-> "undefined"]
JNull == [t |-> "null"]
JBool(b) == [t |-> "boolean", b |-> b]
JNumber(n) == [t |-> "number", n |-> n]
JString(s) == [t |-> "string", s |-> s]
\* a non-empty array of objects, such as the detail of a validation error
JArray == [t |-> "array"]
\* an object: fields maps the names of its properties to their values
JObject(fields) == [t |-> "object", fields |-> fields]
EmptyObject == JObject([k \in {} |-> JUndefined])

\* v is truthy: a || b keeps a
JsTruthy(v) ==
  CASE v.t \in {"undefined", "null"} -> FALSE
    [] v.t = "boolean" -> v.b
    [] v.t = "number" -> v.n # 0
    [] v.t = "string" -> v.s # <<>>
    [] OTHER -> TRUE

\* String(v), as new Error, URLSearchParams and FormData.append convert
JsToString(v) ==
  CASE v.t = "string" -> v.s
    [] v.t = "boolean" -> IF v.b THEN S("true") ELSE S("false")
    [] v.t = "number" -> S(ToString(v.n))
    [] v.t = "null" -> S("null")
    [] v.t = "undefined" -> S("undefined")
    [] OTHER -> S("[object Object]")

\* reading v.key throws a TypeError
PropThrows(v) == v.t \in {"undefined", "null"}
\* v.key, where v is neither null nor undefined
Prop(v, key) ==
  IF v.t = "object" /\ key \in DOMAIN v.fields THEN v.fields[key]
  ELSE JUndefined

\* a string of the interpreter or null, as a JavaScript value
ToJs(v) == IF v = Null THEN JNull ELSE JString(v)

JsError(name, message) == [name |-> name, message |-> message]
Resolved(value) == [settled |-> "resolved", value |-> value]
Rejected(error) == [settled |-> "rejected", error |-> error]

(***************************************************************************)
(* What fetch gives back: a response with a status and a body, or a        *)
(* rejection because the server was not reached.                           *)
(***************************************************************************)
JsonBody(value) == [json |-> TRUE, value |-> value]
\* a body response.json() cannot parse
TextBody == [json |-> FALSE]
Response(status, statusText, body) ==
  [failed |-> FALSE, status |-> status, statusText |-> statusText,
   body |-> body]
\* fetch rejects with a TypeError carrying the browser's message
NetworkFailure(message) == [failed |-> TRUE, message |-> message]

\* response.ok
ResponseOk(reply) == reply.status >= 200 /\ reply.status <= 299

(***************************************************************************)
(* The backend gateway of api.js.                                          *)
(***************************************************************************)
API_BASE_URL == S("http://localhost:8000")
CSV_API_BASE_URL == S("http://localhost:8001")

ApiErrorPrefix == S("API Error: ")
CsvUploadErrorPrefix == S("CSV Upload Error: ")
CsvChatErrorPrefix == S("CSV Chat Error: ")
ApiConnectMessage ==
  S("Unable to connect to the backend server. Please ensure the server is running.")
CsvConnectMessage ==
  S("Unable to connect to the CSV analysis server. Please ensure the server is running on port 8001.")
\* what the engine reports for errorData.detail when errorData is null
NullDetailMessage == S("Cannot read properties of null (reading 'detail')")
\* what response.json() reports for a body that is no JSON
JsonSyntaxMessage == S("Unexpected token < in JSON at position 0")

\* the message with the status line put before the detail
ErrorMessageOfWithStatus(errorData, errorPrefix, reply) ==
  errorPrefix \o S(ToString(reply.status)) \o S(" ") \o reply.statusText
    \o JsToString(Prop(errorData, "detail"))

\* errorData.detail || `<prefix><status> <statusText>`
ErrorMessageOf(errorData, errorPrefix, reply) ==
  IF JsTruthy(Prop(errorData, "detail"))
  THEN JsToString(Prop(errorData, "detail"))
  ELSE errorPrefix \o S(ToString(reply.status)) \o S(" ") \o reply.statusText

\* the try block that hands on one property of the JSON instead of the JSON
TryFetchUnwraps(reply, errorPrefix) ==
  IF reply.failed THEN Rejected(JsError("TypeError", reply.message))
  ELSE IF ~ResponseOk(reply)
  THEN LET errorData == IF reply.body.json THEN reply.body.value
                        ELSE EmptyObject
       IN IF PropThrows(errorData)
          THEN Rejected(JsError("TypeError", NullDetailMessage))
          ELSE Rejected(JsError("Error",
                                ErrorMessageOf(errorData, errorPrefix, reply)))
  ELSE IF reply.body.json /\ PropThrows(reply.body.value)
  THEN Rejected(JsError("TypeError", NullDetailMessage))
  ELSE IF reply.body.json THEN Resolved(Prop(reply.body.value, "response"))
  ELSE Rejected(JsError("SyntaxError", JsonSyntaxMessage))

\* the try block shared by apiFetch, uploadCSV and chatWithCSV: await fetch,
\* throw on !response.ok, else return await response.json()
TryFetch(reply, errorPrefix) ==
  IF reply.failed THEN Rejected(JsError("TypeError", reply.message))
  ELSE IF ~ResponseOk(reply)
  THEN LET errorData == IF reply.body.json THEN reply.body.value
                        ELSE EmptyObject
       IN IF PropThrows(errorData)
          THEN Rejected(JsError("TypeError", NullDetailMessage))
          ELSE Rejected(JsError("Error",
                                ErrorMessageOf(errorData, errorPrefix, reply)))
  ELSE IF reply.body.json THEN Resolved(reply.body.value)
  ELSE Rejected(JsError("SyntaxError", JsonSyntaxMessage))

\* the catch block: a TypeError whose message includes "fetch" becomes the
\* connection message, anything else is thrown again
CatchFetch(outcome, connectMessage) ==
  IF /\ outcome.settled = "rejected"
     /\ outcome.error.name = "TypeError"
     /\ includes(outcome.error.message, S("fetch"))
  THEN Rejected(JsError("Error", connectMessage))
  ELSE outcome

apiFetch(reply) ==
  CatchFetch(TryFetch(reply, ApiErrorPrefix), ApiConnectMessage)
uploadCSV(reply) ==
  CatchFetch(TryFetch(reply, CsvUploadErrorPrefix), CsvConnectMessage)
chatWithCSV(reply) ==
  CatchFetch(TryFetch(reply, CsvChatErrorPrefix), CsvConnectMessage)

\* the request each operation hands to fetch
GetRequest(path, params) ==
  [method |-> "GET", base |-> API_BASE_URL, path |-> path,
   contentType |-> S("application/json"), params |-> params]
\* a CSV request built against the research base URL
PostRequestToResearch(path, fields) ==
  [method |-> "POST", base |-> API_BASE_URL, path |-> path,
   contentType |-> S("multipart/form-data"), params |-> fields]
PostRequest(path, fields) ==
  [method |-> "POST", base |-> CSV_API_BASE_URL, path |-> path,
   contentType |-> S("multipart/form-data"), params |-> fields]

getComprehensiveResearchRequest(businessType, location, options) ==
  GetRequest(S("/api/comprehensive-research"),
    << <<"business_type", JsToString(businessType)>>,
       <<"location", JsToString(location)>>,
       <<"include_raw_data",
         JsToString(IF JsTruthy(Prop(options, "includeRawData"))
                    THEN Prop(options, "includeRawData") ELSE JBool(FALSE))>>,
       <<"use_cache",
         JsToString(IF Prop(options, "useCache") # JUndefined
                    THEN Prop(options, "useCache") ELSE JBool(TRUE))>> >>)

getCityOpportunitiesRequest(city, options) ==
  GetRequest(S("/api/city-opportunities"),
    << <<"city", JsToString(city)>>,
       <<"include_analysis",
         JsToString(IF Prop(options, "includeAnalysis") # JUndefined
                    THEN Prop(options, "includeAnalysis") ELSE JBool(TRUE))>>,
       <<"max_opportunities",
         JsToString(IF JsTruthy(Prop(options, "maxOpportunities"))
                    THEN Prop(options, "maxOpportunities") ELSE JNumber(5))>> >>)

getRawScrapedDataRequest(businessType, location) ==
  GetRequest(S("/api/raw-scraped-data"),
    << <<"business_type", JsToString(businessType)>>,
       <<"location", JsToString(location)>> >>)

checkHealthRequest == GetRequest(S("/health"), <<>>)

uploadCSVRequest(file) == PostRequest(S("/upload_csv"), << <<"file", file>> >>)

chatWithCSVRequest(sessionId, userMessage) ==
  PostRequest(S("/chat"),
    << <<"session_id", JsToString(sessionId)>>,
       <<"user_message", JsToString(userMessage)>> >>)

(***************************************************************************)
(* The queries the interpreter is run on.                                  *)
(***************************************************************************)
\* pieces the generated queries are concatenated from: filler, article,
\* connector, plain word, two known cities (delhi precedes pune in
\* commonCities) and line feed
QueryTokens ==
  { S("open "), S("a "), S("in "), S("cafe "), S("delhi "), S("Pune"),
    S("\n") }

RECURSIVE TokenStrings(_)
TokenStrings(n) ==
  IF n = 0 THEN { <<>> }
  ELSE LET shorter == TokenStrings(n - 1)
       IN shorter \cup {s \o t : s \in shorter, t \in QueryTokens}

\* the queries of the specification, the guides and the suggestion pills,
\* and queries with a code unit whose lower case is two code units
DocumentedQueries ==
  { S("pharmacy in Pune"), S("coffee shop in Mumbai"), S("bakery in Delhi"),
    S("bakery delhi"), S("hello"), S("just coffee"), S("coffee"),
    S("Mumbai"), S("tell me about coffee shops"),
    S("Tell me about opening a cafe in Pune"),
    S("salon At Bangalore"), S("restaurant NEAR chennai"),
    S("looking for the gym near new delhi"), S("  "),
    S("\tcafe\tin\tnew\tdelhi "), S("gym at\tPune"), S("spa\tpune"),
    <<CapIDot>> \o S(" bakery delhi"),
    <<CapIDot>> \o S(" cafe Pune delhi"),
    S("cafe in ") \o <<CapIDot>> \o S("zmir") }

Queries == TokenStrings(MaxTokens) \cup DocumentedQueries

(***************************************************************************)
(* The operations of the gateway, the calls made of them and the replies   *)
(* of the backends.                                                        *)
(***************************************************************************)
ResearchOperations ==
  {"getComprehensiveResearch", "getCityOpportunities", "getRawScrapedData",
   "checkHealth"}
CsvOperations == {"uploadCSV", "chatWithCSV"}

\* the outcome of an operation for a reply of its backend
OutcomeOf(op, reply) ==
  CASE op = "uploadCSV" -> uploadCSV(reply)
    [] op = "chatWithCSV" -> chatWithCSV(reply)
    [] OTHER -> apiFetch(reply)

Options(fields) == JObject(fields)

CsvFile == [name |-> S("sales.csv"), type |-> S("text/csv")]
SheetFile == [name |-> S("stock.csv"), type |-> S("application/vnd.ms-excel")]
TextFile == [name |-> S("notes.txt"), type |-> S("text/plain")]

\* calls of the six operations: the operation, what the caller passed and
\* the request it makes
GatewayCalls ==
  { [op |-> "getComprehensiveResearch", options |-> o,
     request |-> getComprehensiveResearchRequest(
                   JString(S("pharmacy")), JString(S("Pune")), o)] :
      o \in { EmptyObject,
              Options([includeRawData |-> JBool(TRUE),
                       useCache |-> JBool(FALSE)]),
              Options([includeRawData |-> JBool(FALSE),
                       useCache |-> JBool(TRUE)]) } }
  \cup
  { [op |-> "getCityOpportunities", options |-> o,
     request |-> getCityOpportunitiesRequest(JString(S("Pune")), o)] :
      o \in { EmptyObject,
              Options([includeAnalysis |-> JBool(FALSE),
                       maxOpportunities |-> JNumber(0)]),
              Options([includeAnalysis |-> JBool(TRUE),
                       maxOpportunities |-> JNumber(3)]) } }
  \cup
  { [op |-> "getRawScrapedData", options |-> EmptyObject,
     request |-> getRawScrapedDataRequest(JString(S("pharmacy")),
                                          JString(S("Pune")))],
    [op |-> "checkHealth", options |-> EmptyObject,
     request |-> checkHealthRequest],
    [op |-> "uploadCSV", options |-> EmptyObject,
     request |-> uploadCSVRequest(CsvFile)],
    [op |-> "chatWithCSV", options |-> EmptyObject,
     request |-> chatWithCSVRequest(JString(S("s1")),
                                    JString(S("top products")))] }

\* bodies of the backends
SessionBody(id) ==
  JsonBody(JObject([session_id |-> JString(S(id)),
                    response |-> JString(S("answer " \o id))]))
DetailBody(detail) == JsonBody(JObject([detail |-> detail]))
OtherErrorBody == JsonBody(JObject([error |-> JString(S("overloaded"))]))

\* the messages of a failed fetch: Chrome, Firefox, Safari
NetworkFailureMessages ==
  { S("Failed to fetch"),
    S("NetworkError when attempting to fetch resource."),
    S("Load failed") }

GatewayReplies ==
  { Response(200, S("OK"), SessionBody("s1")),
    Response(201, S("Created"), SessionBody("s2")),
    Response(200, S("OK"), JsonBody(JNull)),
    Response(200, S("OK"), TextBody),
    Response(404, S("Not Found"), DetailBody(JString(S("not found")))),
    Response(404, S("Not Found"), DetailBody(JString(<<>>))),
    Response(400, S("Bad Request"),
             DetailBody(JString(S("could not fetch the rows")))),
    Response(422, S("Unprocessable Entity"), DetailBody(JArray)),
    Response(503, S("Service Unavailable"), OtherErrorBody),
    Response(500, S("Internal Server Error"), TextBody),
    Response(500, S("Internal Server Error"), JsonBody(JNull)) }
  \cup { NetworkFailure(m) : m \in NetworkFailureMessages }

(***************************************************************************)
(* The chat page: what it shows and what the user can give it.             *)
(***************************************************************************)
NoFile == [none |-> TRUE]
Files == { CsvFile, SheetFile, TextFile }

\* s.endsWith(suffix)
endsWith(s, suffix) ==
  /\ Len(suffix) <= Len(s)
  /\ SubSeq(s, Len(s) - Len(suffix) + 1, Len(s)) = suffix

\* the texts the user types or picks from the suggestion pills
PageInputs == { S(" "), S("hello"), S("pharmacy in Pune") }

\* the replies the backends give the page
PageReplies ==
  { Response(200, S("OK"), SessionBody("s1")),
    Response(200, S("OK"), SessionBody("s2")),
    Response(200, S("OK"), JsonBody(JNull)),
    Response(404, S("Not Found"), DetailBody(JString(S("not found")))),
    NetworkFailure(S("Failed to fetch")) }

\* the parsed query of a send that does not parse its message
NothingParsed == [businessType |-> Null, location |-> Null,
                  needsClarification |-> TRUE]
\* what the engine reports for a property read of a null result
NullResultMessage == S("Cannot read properties of null")

\* what the engine reports for Object.keys(null)
NullKeysMessage == S("Cannot convert undefined or null to object")

DefaultUserMessage == S("Analyze this CSV file")
\* the clarification prompt and the fallback error text of the page without
\* CSV analysis (page.jsx up to line 848)
ResearchClarificationPrompt ==
  S("I'd love to help! Please provide both the business type and location. For example: 'coffee shop in Mumbai' or 'pharmacy in Pune'")
ResearchErrorMessage ==
  S("Failed to fetch research data. Please try again.")
\* the same of the page with CSV analysis (page.jsx from line 850)
ClarificationPrompt ==
  S("I'd love to help! Please provide both the business type and location. For example: 'coffee shop in Mumbai' or 'pharmacy in Pune'. You can also attach a CSV file for data analysis!")
DefaultErrorMessage == S("Failed to process request. Please try again.")
SelectCsvMessage == S("Please select a CSV file")

\* the user message of the page without CSV analysis
PlainUserMessage(content) == [type |-> "user", content |-> content]
UserMessage(content, file) ==
  [type |-> "user", content |-> content, hasAttachment |-> file # NoFile,
   fileName |-> IF file # NoFile THEN file.name ELSE Null]
TypingMessage(content) == [type |-> "typing", content |-> content]
ClarificationMessage(prompt) ==
  [type |-> "assistant", content |-> prompt, needsClarification |-> TRUE]
ResearchMessage(parsed, data) ==
  [type |-> "assistant",
   content |-> S("Here's a comprehensive analysis for **")
                 \o parsed.businessType \o S("** in **") \o parsed.location
                 \o S("**:"),
   data |-> data]
CsvMessage(file, uploadResult) ==
  [type |-> "assistant",
   content |-> S("Here's the analysis of **") \o file.name \o S("**:"),
   csvData |-> uploadResult, dataType |-> "csv"]
\* chatResult.parsed?.answer || chatResult.response
CsvChatMessage(chatResult) ==
  LET parsedField == Prop(chatResult, "parsed")
      answer == IF PropThrows(parsedField) THEN JUndefined
                ELSE Prop(parsedField, "answer")
  IN [type |-> "assistant",
      content |-> IF JsTruthy(answer) THEN answer
                  ELSE Prop(chatResult, "response"),
      csvChatData |-> parsedField, dataType |-> "csv-chat"]
\* err.message || fallback
ErrorMessage(err, fallback) ==
  [type |-> "error",
   content |-> IF err.message # <<>> THEN err.message ELSE fallback]

\* a filter that keeps the typing indicator
KeepsTyping(list) == list

\* prev.filter((msg) => msg.type !== "typing")
WithoutTyping(list) == SelectSeq(list, LAMBDA m : m.type # "typing")

(***************************************************************************)
(* CSVChart: the props of the component and what it renders.               *)
(***************************************************************************)
NoDataPlaceholder == S("No data available for this chart")

\* the data prop as an array of that many rows
DataRows(n) == [t |-> "array", length |-> n]

\* !data || data.length === 0
NoData(data) == data.t \in {"undefined", "null"} \/ data.length = 0

\* the chart type taken as written, without toLowerCase
ChartTypeAsWritten(chartSpec) ==
  IF PropThrows(Prop(chartSpec, "type")) THEN S("bar")
  ELSE IF Prop(chartSpec, "type").s = <<>> THEN S("bar")
  ELSE Prop(chartSpec, "type").s

\* chartSpec.type?.toLowerCase() || "bar"
ChartType(chartSpec) ==
  IF PropThrows(Prop(chartSpec, "type")) THEN S("bar")
  ELSE IF toLowerCase(Prop(chartSpec, "type").s) = <<>> THEN S("bar")
  ELSE toLowerCase(Prop(chartSpec, "type").s)

\* chartSpec.title || "Chart"
ChartTitle(chartSpec) ==
  IF JsTruthy(Prop(chartSpec, "title")) THEN Prop(chartSpec, "title").s
  ELSE S("Chart")

\* renderChart: the branch of the switch, the element it returns and the
\* rows the element is given
renderChart(chartType) ==
  CASE chartType = S("line") ->
         [branch |-> "line", element |-> "LineChart", rows |-> "data"]
    [] chartType = S("bar") ->
         [branch |-> "bar", element |-> "BarChart", rows |-> "data"]
    [] chartType = S("pie") ->
         [branch |-> "pie", element |-> "PieChart", rows |-> "data"]
    [] chartType \in {S("hist"), S("histogram")} ->
         [branch |-> "histogram", element |-> "BarChart",
          rows |-> "histData"]
    [] OTHER ->
         [branch |-> "default", element |-> "BarChart", rows |-> "data"]

\* the component: the placeholder, or the title, the chart and the type label
CSVChart(chartSpec, data) ==
  IF NoData(data)
  THEN [view |-> "placeholder", text |-> NoDataPlaceholder]
  ELSE [view |-> "chart", title |-> ChartTitle(chartSpec),
        chart |-> renderChart(ChartType(chartSpec)),
        typeLabel |-> ChartType(chartSpec)]

\* the chart types the backend sends, in several spellings, and types the
\* component does not know
ChartTypeStrings ==
  { S("line"), S("LINE"), S("Line"), S("bar"), S("Bar"), S("pie"), S("PIE"),
    S("hist"), S("Hist"), S("histogram"), S("HISTOGRAM"), S("Histogram"),
    S("scatter"), S("area"), S(" line"), S("l") \o <<CapIDot>> \o S("ne"),
    <<>> }

\* chart specifications: with a type string, with type null, without type
ChartSpecs ==
  { JObject([type |-> JString(type), title |-> JString(S("Sales"))]) :
      type \in ChartTypeStrings }
  \cup { JObject([type |-> JString(type)]) : type \in ChartTypeStrings }
  \cup { JObject([type |-> JNull, title |-> JString(S("Sales"))]),
         JObject([title |-> JString(<<>>)]),
         EmptyObject }

\* the data prop: missing, null, no rows, rows
ChartData == { JUndefined, JNull, DataRows(0), DataRows(1), DataRows(2) }

(***************************************************************************)
(* State.                                                                  *)
(***************************************************************************)
VARIABLES
  query,        \* the string handed to parseUserQuery
  results,      \* what parseUserQuery returned: for query, then for the
                \* string "<businessType> in <location>" rebuilt from that
  csvPage,      \* which page of page.jsx is mounted: the one with CSV
                \* analysis (from line 850) or the one without
  gw,           \* a call of a gateway operation: the request made, the
                \* reply of the backend, the outcome for the caller
  chart,        \* a CSVChart element: its props, then what it renders
  messages,     \* page state: the chat
  inputValue,   \* page state: the text field
  isLoading,    \* page state: a send is being processed
  error,        \* page state: the error banner, or Null
  attachedFile, \* page state: the file to upload, or NoFile
  csvSessionId, \* page state: the session of the CSV backend
  pending,      \* the sends that await their gateway call, each with the
                \* values its closure holds
  wire          \* the gateway calls the page has made, in order

parseVars == <<query, results>>
pageVars == <<messages, inputValue, isLoading, error, attachedFile,
              csvSessionId, pending, wire>>
vars == <<query, results, csvPage, gw, chart, messages, inputValue, isLoading, error,
          attachedFile, csvSessionId, pending, wire>>

NoCall == [phase |-> "idle"]
\* no chart is mounted
NoChart == [phase |-> "none"]

InitInterpreter == query = <<>> /\ results = <<>>
InitGateway == gw = NoCall
InitChart == chart = NoChart
\* the useState initial values of the page
InitPage ==
  /\ messages = <<>>
  /\ inputValue = <<>>
  /\ isLoading = FALSE
  /\ error = Null
  /\ attachedFile = NoFile
  /\ csvSessionId = JNull
  /\ pending = {}
  /\ wire = <<>>

(***************************************************************************)
(* The interpreter on its own: parseUserQuery applied to a query, and then *)
(* to the query rebuilt from its result.                                   *)
(***************************************************************************)
Reconstructed(r) == r.businessType \o S(" in ") \o r.location

InitParse ==
  /\ query \in Queries
  /\ results = <<>>
  /\ csvPage = TRUE
  /\ InitGateway
  /\ InitChart
  /\ InitPage

ParseQuery ==
  /\ results = <<>>
  /\ results' = << parseUserQuery(query) >>
  /\ UNCHANGED <<query, csvPage, gw, chart, pageVars>>

ParseReconstructed ==
  /\ Len(results) = 1
  /\ ~results[1].needsClarification
  /\ results' = Append(results, parseUserQuery(Reconstructed(results[1])))
  /\ UNCHANGED <<query, csvPage, gw, chart, pageVars>>

NextParse == ParseQuery \/ ParseReconstructed

SpecParse == InitParse /\ [][NextParse]_vars

(***************************************************************************)
(* CSVChart on its own: an element is mounted with its props and rendered. *)
(***************************************************************************)
InitCharts ==
  /\ InitInterpreter
  /\ csvPage = TRUE
  /\ InitGateway
  /\ \E chartSpec \in ChartSpecs : \E data \in ChartData :
       chart = [phase |-> "mounted", chartSpec |-> chartSpec, data |-> data]
  /\ InitPage

RenderChart ==
  /\ chart.phase = "mounted"
  /\ chart' = [phase |-> "rendered", chartSpec |-> chart.chartSpec,
               data |-> chart.data,
               rendered |-> CSVChart(chart.chartSpec, chart.data)]
  /\ UNCHANGED <<parseVars, csvPage, gw, pageVars>>

NextChart == RenderChart

SpecChart == InitCharts /\ [][NextChart]_vars

(***************************************************************************)
(* The gateway on its own: one call of an operation and its outcome.       *)
(***************************************************************************)
\* the operation is called: fetch is handed the request
GatewayCall ==
  /\ gw = NoCall
  /\ \E call \in GatewayCalls :
       gw' = [phase |-> "pending", op |-> call.op, options |-> call.options,
              requests |-> << call.request >>]
  /\ UNCHANGED <<parseVars, csvPage, chart, pageVars>>

\* the backend replies, or cannot be reached: the call settles
GatewaySettle ==
  /\ gw.phase = "pending"
  /\ \E reply \in GatewayReplies :
       gw' = [phase |-> "settled", op |-> gw.op, options |-> gw.options,
              requests |-> gw.requests, reply |-> reply,
              outcome |-> OutcomeOf(gw.op, reply)]
  /\ UNCHANGED <<parseVars, csvPage, chart, pageVars>>

NextGateway == GatewayCall \/ GatewaySettle

InitCalls ==
  /\ query = <<>>
  /\ results = <<>>
  /\ csvPage = TRUE
  /\ InitGateway
  /\ InitChart
  /\ InitPage

SpecGateway == InitCalls /\ [][NextGateway]_vars

(***************************************************************************)
(* The chat page: handleFileSelect, removeAttachedFile, the text field,    *)
(* handleSendMessage up to its await, and its continuation when the        *)
(* gateway call settles.                                                   *)
(***************************************************************************)
\* the values a send keeps in its closure while it awaits the gateway
Closure(op, userMessage, file, parsed) ==
  [op |-> op, userMessage |-> userMessage, file |-> file, parsed |-> parsed]

UserMessages == SelectSeq(messages, LAMBDA m : m.type = "user")

\* onChange of the text field and the suggestion pills; the field is
\* disabled while a send is processed
SetInputValue ==
  /\ ~isLoading
  /\ \E text \in PageInputs : inputValue' = text
  /\ UNCHANGED <<messages, isLoading, error, attachedFile, csvSessionId,
                 pending, wire>>
  /\ UNCHANGED <<parseVars, csvPage, gw, chart>>

\* a file input that attaches whatever file is selected
HandleFileSelectAny ==
  /\ csvPage
  /\ \E file \in Files : attachedFile' = file /\ error' = Null
  /\ UNCHANGED <<messages, inputValue, isLoading, csvSessionId, pending,
                 wire>>
  /\ UNCHANGED <<parseVars, csvPage, gw, chart>>

\* the file input changes: a CSV file is attached, another file is refused
HandleFileSelect ==
  /\ csvPage
  /\ \E file \in Files :
       IF file.type = S("text/csv") \/ endsWith(file.name, S(".csv"))
       THEN attachedFile' = file /\ error' = Null
       ELSE error' = SelectCsvMessage /\ UNCHANGED attachedFile
  /\ UNCHANGED <<messages, inputValue, isLoading, csvSessionId, pending,
                 wire>>
  /\ UNCHANGED <<parseVars, csvPage, gw, chart>>

\* the remove button of the attachment preview
RemoveAttachedFile ==
  /\ csvPage
  /\ attachedFile # NoFile
  /\ attachedFile' = NoFile
  /\ UNCHANGED <<messages, inputValue, isLoading, error, csvSessionId,
                 pending, wire>>
  /\ UNCHANGED <<parseVars, csvPage, gw, chart>>

\* the page calls a gateway operation: the call goes on the wire and the
\* send awaits it
Await(op, request, closure) ==
  /\ wire' = Append(wire, [op |-> op, request |-> request])
  /\ pending' = pending \cup {closure}

\* "CSV Upload Flow", up to await uploadCSV(attachedFile)
UploadFlow(userMessage, shown) ==
  /\ messages' = Append(shown, TypingMessage(S("Analyzing your CSV file...")))
  /\ isLoading' = TRUE
  /\ Await("uploadCSV", uploadCSVRequest(attachedFile),
           Closure("uploadCSV", userMessage, attachedFile, NothingParsed))

\* "CSV Follow-up Chat Flow", up to await chatWithCSV(csvSessionId, ...)
ChatFlow(userMessage, shown) ==
  /\ messages' = Append(shown, TypingMessage(S("Analyzing...")))
  /\ isLoading' = TRUE
  /\ Await("chatWithCSV",
           chatWithCSVRequest(csvSessionId, JString(userMessage)),
           Closure("chatWithCSV", userMessage, NoFile, NothingParsed))

\* the typing indicator, then await getComprehensiveResearch(...)
FetchResearch(userMessage, shown, parsed) ==
  /\ messages' = Append(shown, TypingMessage(S("Analyzing market data...")))
  /\ isLoading' = TRUE
  /\ Await("getComprehensiveResearch",
           getComprehensiveResearchRequest(
             ToJs(parsed.businessType), ToJs(parsed.location),
             Options([includeRawData |-> JBool(FALSE),
                      useCache |-> JBool(TRUE)])),
           Closure("getComprehensiveResearch", userMessage, NoFile, parsed))

\* the research flow without the needsClarification branch: it fetches
\* whatever the query parses to
ParsedFlowAlwaysFetches(userMessage, shown, parsed, prompt) ==
  FetchResearch(userMessage, shown, parsed)

\* if (parsed.needsClarification): the clarification prompt and return, else
\* the fetch
ParsedFlow(userMessage, shown, parsed, prompt) ==
  IF parsed.needsClarification
  THEN /\ messages' = Append(shown, ClarificationMessage(prompt))
       /\ isLoading' = FALSE
       /\ UNCHANGED <<pending, wire>>
  ELSE FetchResearch(userMessage, shown, parsed)

\* "Original Business Research Flow", and the try block of the page without
\* CSV analysis: const parsed = parseUserQuery(userMessage)
ResearchFlow(userMessage, shown, prompt) ==
  ParsedFlow(userMessage, shown, parseUserQuery(userMessage), prompt)

\* a guard that refuses only while a send is in progress, the empty send not
SendRefusedOnlyWhileLoading == isLoading

\* a guard that refuses only the empty send, also while a send is in progress
SendRefusedOnlyWhenEmpty ==
  trim(inputValue) = <<>> /\ attachedFile = NoFile

\* the guard of handleSendMessage: nothing to send, or a send in progress
SendRefused ==
  (trim(inputValue) = <<>> /\ attachedFile = NoFile) \/ isLoading

\* inputValue.trim() || "Analyze this CSV file"
UserMessageText ==
  IF trim(inputValue) # <<>> THEN trim(inputValue) ELSE DefaultUserMessage

\* the branches of the try block, up to the first await or the return
SendFlow(userMessage, shown) ==
  IF attachedFile # NoFile THEN UploadFlow(userMessage, shown)
  ELSE IF JsTruthy(csvSessionId) /\ userMessage # <<>>
  THEN ChatFlow(userMessage, shown)
  ELSE ResearchFlow(userMessage, shown, ClarificationPrompt)

\* the follow-up questions asked so far
ChatCalls == Len(SelectSeq(wire, LAMBDA call : call.op = "chatWithCSV"))

\* handleSendMessage, from the click or the Enter key to its first await or
\* its return
HandleSendMessage ==
  /\ csvPage
  /\ IF attachedFile = NoFile /\ JsTruthy(csvSessionId)
     THEN ChatCalls < MaxChats
     ELSE Len(UserMessages) - ChatCalls < MaxSends
  /\ IF SendRefused
     THEN UNCHANGED pageVars
     ELSE /\ inputValue' = <<>>
          /\ error' = Null
          /\ SendFlow(UserMessageText,
                      Append(messages,
                             UserMessage(UserMessageText, attachedFile)))
          /\ UNCHANGED <<attachedFile, csvSessionId>>
  /\ UNCHANGED <<parseVars, csvPage, gw, chart>>

\* handleSendMessage of the page without CSV analysis, to its await or return
ResearchSendMessage ==
  /\ ~csvPage
  /\ Len(UserMessages) < MaxSends
  /\ IF trim(inputValue) = <<>> \/ isLoading
     THEN UNCHANGED pageVars
     ELSE /\ inputValue' = <<>>
          /\ error' = Null
          /\ ResearchFlow(trim(inputValue),
                          Append(messages, PlainUserMessage(trim(inputValue))),
                          ResearchClarificationPrompt)
          /\ UNCHANGED <<attachedFile, csvSessionId>>
  /\ UNCHANGED <<parseVars, csvPage, gw, chart>>

\* a catch block that also drops the attachment and the session
CatchErrorResets(err, fallback) ==
  /\ messages' = Append(WithoutTyping(messages), ErrorMessage(err, fallback))
  /\ error' = err.message
  /\ attachedFile' = NoFile
  /\ csvSessionId' = JNull

\* the catch block of handleSendMessage
CatchError(err, fallback) ==
  /\ messages' = Append(WithoutTyping(messages), ErrorMessage(err, fallback))
  /\ error' = err.message
  /\ UNCHANGED <<attachedFile, csvSessionId>>

\* after await uploadCSV: the session is stored, the analysis shown and the
\* attachment removed
UploadDone(send, uploadResult) ==
  /\ csvSessionId' = Prop(uploadResult, "session_id")
  /\ messages' = Append(WithoutTyping(messages),
                        CsvMessage(send.file, uploadResult))
  /\ attachedFile' = NoFile
  /\ UNCHANGED error

\* after await chatWithCSV: the answer is shown
ChatDone(send, chatResult) ==
  /\ messages' = Append(WithoutTyping(messages), CsvChatMessage(chatResult))
  /\ UNCHANGED <<error, attachedFile, csvSessionId>>

\* after await getComprehensiveResearch: the analysis is shown
ResearchDone(send, data) ==
  /\ messages' = Append(WithoutTyping(messages),
                        ResearchMessage(send.parsed, data))
  /\ UNCHANGED <<error, attachedFile, csvSessionId>>

\* the rest of the try block after the awaited call settled, or the catch
\* block
AfterAwait(send, outcome) ==
  IF outcome.settled = "rejected"
  THEN CatchError(outcome.error, DefaultErrorMessage)
  ELSE IF send.op = "getComprehensiveResearch"
  THEN ResearchDone(send, outcome.value)
  ELSE IF PropThrows(outcome.value)
  THEN CatchError(JsError("TypeError", NullResultMessage), DefaultErrorMessage)
  ELSE IF send.op = "uploadCSV" THEN UploadDone(send, outcome.value)
  ELSE ChatDone(send, outcome.value)

\* the same of the page without CSV analysis, which logs Object.keys(data)
ResearchAfterAwait(send, outcome) ==
  IF outcome.settled = "rejected"
  THEN CatchError(outcome.error, ResearchErrorMessage)
  ELSE IF PropThrows(outcome.value)
  THEN CatchError(JsError("TypeError", NullKeysMessage), ResearchErrorMessage)
  ELSE ResearchDone(send, outcome.value)

\* a settle step that issues the request again when the call failed, and
\* goes on waiting
SettleSendRetries ==
  /\ csvPage
  /\ \E send \in pending : \E reply \in PageReplies :
       IF OutcomeOf(send.op, reply).settled = "rejected"
       THEN /\ wire' = Append(wire, wire[Len(wire)])
            /\ UNCHANGED <<messages, isLoading, error, attachedFile,
                           csvSessionId, pending>>
       ELSE /\ AfterAwait(send, OutcomeOf(send.op, reply))
            /\ pending' = pending \ {send}
            /\ isLoading' = FALSE
            /\ UNCHANGED wire
  /\ UNCHANGED inputValue
  /\ UNCHANGED <<parseVars, csvPage, gw, chart>>

\* a settle step without the finally block: a failed call leaves isLoading
\* as it was
SettleSendWithoutFinally ==
  /\ csvPage
  /\ \E send \in pending : \E reply \in PageReplies :
       /\ AfterAwait(send, OutcomeOf(send.op, reply))
       /\ pending' = pending \ {send}
       /\ isLoading' = IF OutcomeOf(send.op, reply).settled = "rejected"
                       THEN isLoading ELSE FALSE
  /\ UNCHANGED <<inputValue, wire>>
  /\ UNCHANGED <<parseVars, csvPage, gw, chart>>

\* the gateway call of a send settles: the rest of the try block, or the
\* catch block, and the finally block
SettleSend ==
  /\ csvPage
  /\ \E send \in pending : \E reply \in PageReplies :
       /\ AfterAwait(send, OutcomeOf(send.op, reply))
       /\ pending' = pending \ {send}
  /\ isLoading' = FALSE
  /\ UNCHANGED <<inputValue, wire>>
  /\ UNCHANGED <<parseVars, csvPage, gw, chart>>

\* the same of the page without CSV analysis
ResearchSettleSend ==
  /\ ~csvPage
  /\ \E send \in pending : \E reply \in PageReplies :
       /\ ResearchAfterAwait(send, OutcomeOf(send.op, reply))
       /\ pending' = pending \ {send}
  /\ isLoading' = FALSE
  /\ UNCHANGED <<inputValue, wire>>
  /\ UNCHANGED <<parseVars, csvPage, gw, chart>>

Init ==
  /\ InitInterpreter
  /\ csvPage \in BOOLEAN
  /\ InitGateway
  /\ InitChart
  /\ InitPage

Next ==
  \/ SetInputValue
  \/ HandleFileSelect
  \/ RemoveAttachedFile
  \/ HandleSendMessage
  \/ SettleSend
  \/ ResearchSendMessage
  \/ ResearchSettleSend

Spec == Init /\ [][Next]_vars

\* the chat page whose awaited calls settle: the continuation of a send runs
\* once the promise it awaits is settled
FairSpec ==
  /\ Init
  /\ [][Next]_vars
  /\ WF_vars(SettleSend)
  /\ WF_vars(ResearchSettleSend)

(***************************************************************************)
(* Properties of the interpreter, checked under SpecParse.                 *)
(***************************************************************************)
IsString(v) == \A i \in 1..Len(v) : v[i] \in CodeUnits

NothingFound == [businessType |-> Null, location |-> Null,
                 needsClarification |-> TRUE]

\* the query matches the connector pattern
MatchesInPattern(q) == inPatternMatch(trim(q)) # Null

\* the known cities the query names, as indices of commonCities
CitiesIn(q) ==
  {i \in 1..Len(commonCities) :
     includes(trim(toLowerCase(q)), commonCities[i])}

\* the 1-based positions of the trimmed query where the city is written, in
\* any case
CityPositions(q, city) ==
  {p \in 1..Len(trim(q)) :
     /\ p + Len(city) - 1 <= Len(trim(q))
     /\ \A k \in 1..Len(city) : LowerTable[trim(q)[p + k - 1]] = << city[k] >>}

\* the business type the text before position p cleans up to
CleanedBefore(q, p) ==
  LET before == CleanBusinessType(trim(SubSeq(trim(q), 1, p - 1)))
  IN IF before = <<>> THEN Null ELSE before

\* in, at or near stands in s as a word followed by white space
HasConnectorWord(s) ==
  \E p \in 1..Len(s) : \E i \in 1..Len(Connectors) :
    /\ p = 1 \/ IsSpace(s[p - 1])
    /\ OccursAtI(s, Connectors[i], p)
    /\ p + Len(Connectors[i]) <= Len(s)
    /\ IsSpace(s[p + Len(Connectors[i])])

HasLineBreak(s) == \E p \in 1..Len(s) : s[p] \in LineTerminator

\* the ways to read the query as "<A> in <B>", "<A> at <B>", "<A> near <B>":
\* the position and the connector
ConnectorForms == { S(" in "), S(" at "), S(" near ") }
Splits(q) ==
  {sp \in (1..Len(q)) \X ConnectorForms : OccursAt(q, sp[2], sp[1])}
PartA(q, sp) == trim(SubSeq(q, 1, sp[1] - 1))
PartB(q, sp) == trim(SubSeq(q, sp[1] + Len(sp[2]), Len(q)))
NonEmptyAfterCleanup(a, b) ==
  CleanBusinessType(a) # <<>> /\ CleanLocation(b) # <<>>
ExpectedOfParts(a, b) ==
  [businessType |-> CleanBusinessType(a), location |-> CleanLocation(b),
   needsClarification |-> FALSE]

\* C2: in every returned object needsClarification is true exactly when
\* businessType or location is null, and no field holds an empty string.
C2_ClarificationIffNull ==
  \A i \in 1..Len(results) :
    /\ results[i].needsClarification
         <=> (results[i].businessType = Null \/ results[i].location = Null)
    /\ results[i].businessType # <<>>
    /\ results[i].location # <<>>

\* a city with nothing before it: the clean-up is left with the empty string
C2_Witness ==
  /\ Len(results) = 1
  /\ ~MatchesInPattern(query)
  /\ Pattern2(trim(query), trim(toLowerCase(query))).businessType = <<>>
  /\ results[1].businessType = Null
  /\ results[1].location # Null
  /\ results[1].needsClarification

C5_KeepsBusinessText ==
  (/\ Len(results) >= 1
   /\ ~MatchesInPattern(query) /\ CitiesIn(query) = {}
   /\ trim(query) # <<>>)
    => results[1] = [businessType |-> CleanBusinessType(trim(query)),
                     location |-> Null, needsClarification |-> TRUE]

\* C6: for a query with a known city and no connector match, the location is
\* the matched city capitalised and the business type is the cleaned text
\* before the city's first occurrence, null (and clarification needed) when
\* nothing precedes it.
C6_CityFallback ==
  (/\ Len(results) >= 1
   /\ ~MatchesInPattern(query)
   /\ CitiesIn(query) # {}
   /\ CityPositions(query, commonCities[Min(CitiesIn(query))]) # {})
    => LET city == commonCities[Min(CitiesIn(query))]
           p == Min(CityPositions(query, city))
       IN /\ results[1].location = CapitalizeFirst(city)
          /\ results[1].businessType = CleanedBefore(query, p)
          /\ p = 1 => results[1].needsClarification

\* C7: parsing "<businessType> in <location>" rebuilt from a successful parse
\* gives the same ParsedQuery again.
C7_RoundTrip ==
  Len(results) = 2 => results[2] = results[1]

\* C8: when the query names several known cities and matches no connector,
\* the location is the city that is first in commonCities, also when another
\* city stands further left in the text, and the business type is the
\* (cleaned) text before the chosen city's first occurrence.
C8_ListOrderWins ==
  (/\ Len(results) >= 1
   /\ ~MatchesInPattern(query)
   /\ Cardinality(CitiesIn(query)) >= 2
   /\ \A i \in CitiesIn(query) : CityPositions(query, commonCities[i]) # {})
    => LET first == Min(CitiesIn(query))
           p == Min(CityPositions(query, commonCities[first]))
       IN /\ results[1].location = CapitalizeFirst(commonCities[first])
          /\ results[1].businessType = CleanedBefore(query, p)

\* C9: whatever the string, parseUserQuery returns an object with the three
\* fields, businessType and location a string or null and needsClarification
\* a boolean.
C9_AlwaysWellFormed ==
  \A i \in 1..Len(results) :
    /\ DOMAIN results[i] = {"businessType", "location", "needsClarification"}
    /\ results[i].businessType = Null \/ IsString(results[i].businessType)
    /\ results[i].location = Null \/ IsString(results[i].location)
    /\ results[i].needsClarification \in BOOLEAN

\* the empty string, white space alone, a filler or a connector alone
C9_Witness ==
  /\ Len(results) = 1
  /\ query \in { <<>>, S("\n"), S("  "), S("open "), S("in "), S("a in ") }
  /\ results[1] = NothingFound

(***************************************************************************)
(* Properties of the gateway, checked under SpecGateway.                   *)
(***************************************************************************)
\* the call was answered with a status outside 200..299 and a JSON object
\* that has a detail field
DetailReply ==
  /\ gw.phase = "settled"
  /\ ~gw.reply.failed
  /\ ~ResponseOk(gw.reply)
  /\ gw.reply.body.json
  /\ gw.reply.body.value.t = "object"
  /\ "detail" \in DOMAIN gw.reply.body.value.fields

\* the detail of such a reply
DetailOf == gw.reply.body.value.fields["detail"]

\* the call failed with an Error whose message is the text
FailedWith(text) == gw.outcome = Rejected(JsError("Error", text))

\* C10 as stated: a non-2xx reply whose JSON body has a detail field makes
\* the operation fail with exactly the detail text as its message.
C10_DetailIsMessage ==
  (DetailReply /\ DetailOf.t = "string") => FailedWith(DetailOf.s)

\* C10 amended: the same for a detail that is a non-empty string, for every
\* operation of the gateway.
C10_NonEmptyDetailIsMessage ==
  (DetailReply /\ DetailOf.t = "string" /\ DetailOf.s # <<>>)
    => FailedWith(DetailOf.s)

\* chatWithCSV answered 404 with the detail "not found"
C10_Witness ==
  /\ DetailReply
  /\ gw.op = "chatWithCSV"
  /\ gw.reply.status = 404
  /\ DetailOf = JString(S("not found"))
  /\ FailedWith(S("not found"))

(***************************************************************************)
(* Properties of the chat page, checked under Spec.                        *)
(***************************************************************************)
\* the step calls getComprehensiveResearch
CallsResearch ==
  /\ Len(wire') = Len(wire) + 1
  /\ wire'[Len(wire')].op = "getComprehensiveResearch"

\* the step sends a message
SendsMessage == Len(UserMessages') = Len(UserMessages) + 1

\* the text of the message the step sends
SentText == UserMessages'[Len(UserMessages')].content

\* the send takes the research flow: no file is attached and no CSV session
\* is open
TakesResearchFlow == attachedFile = NoFile /\ ~JsTruthy(csvSessionId)

\* the clarification prompt of the mounted page
PromptOfPage ==
  ClarificationMessage(IF csvPage THEN ClarificationPrompt
                       ELSE ResearchClarificationPrompt)

\* C1: getComprehensiveResearch is called only by a send whose message
\* parses without needsClarification, and with the parsed business type and
\* location; a send of the research flow whose message parses with
\* needsClarification puts nothing on the wire, awaits nothing, shows the
\* user message and the clarification prompt and leaves isLoading false.
C1_NoResearchForClarification ==
  [][/\ CallsResearch =>
          /\ SendsMessage
          /\ ~parseUserQuery(SentText).needsClarification
          /\ wire'[Len(wire')].request =
               getComprehensiveResearchRequest(
                 JString(parseUserQuery(SentText).businessType),
                 JString(parseUserQuery(SentText).location),
                 Options([includeRawData |-> JBool(FALSE),
                          useCache |-> JBool(TRUE)]))
     /\ (/\ SendsMessage
         /\ TakesResearchFlow
         /\ parseUserQuery(SentText).needsClarification) =>
          /\ wire' = wire
          /\ pending' = pending
          /\ isLoading' = FALSE
          /\ Len(messages') = Len(messages) + 2
          /\ messages'[Len(messages')] = PromptOfPage
    ]_vars

\* "hello" was sent: the chat holds it and the clarification prompt, and no
\* call was made
C1_Witness ==
  /\ messages = << UserMessage(S("hello"), NoFile),
                   ClarificationMessage(ClarificationPrompt) >>
  /\ parseUserQuery(S("hello")).needsClarification
  /\ wire = <<>>
  /\ pending = {}
  /\ ~isLoading

\* the call was answered with a status outside 200..299 and a body that is
\* no JSON, or JSON without a detail field
NoDetailReply ==
  /\ gw.phase = "settled"
  /\ ~gw.reply.failed
  /\ ~ResponseOk(gw.reply)
  /\ \/ ~gw.reply.body.json
     \/ gw.reply.body.value.t # "object"
     \/ "detail" \notin DOMAIN gw.reply.body.value.fields

\* "<status> <statusText>" of the reply
StatusLine == S(ToString(gw.reply.status)) \o S(" ") \o gw.reply.statusText

\* C11: a non-2xx reply whose body is no JSON, or carries no detail, makes
\* the operation fail with an Error whose message is the generic message
\* ending in "<status> <statusText>".
C11_GenericMessage ==
  NoDetailReply =>
    /\ gw.outcome.settled = "rejected"
    /\ gw.outcome.error.name = "Error"
    /\ endsWith(gw.outcome.error.message, StatusLine)

\* the port of the backend an operation talks to
PortOf(op) == IF op \in CsvOperations THEN S("8001") ELSE S("8000")

\* fetch rejected: the backend was not reached
TransportFailure == gw.phase = "settled" /\ gw.reply.failed

\* C12: when the backend is not reached, the operation fails with an Error
\* whose message is the fixed connection message and names the port of the
\* backend: 8000 for the research operations, 8001 for the CSV operations.
C12_ConnectMessageNamesPort ==
  TransportFailure =>
    /\ gw.outcome.settled = "rejected"
    /\ gw.outcome.error.name = "Error"
    /\ gw.outcome.error.message \in {ApiConnectMessage, CsvConnectMessage}
    /\ includes(gw.outcome.error.message, PortOf(gw.op))

\* the two terminal outcomes of a call: the parsed JSON, or a failure the
\* gateway itself raised with new Error(...), which is what it does for a
\* non-2xx reply and for a backend it could not reach
IsSuccess(outcome) == outcome.settled = "resolved"
IsGatewayError(outcome) ==
  outcome.settled = "rejected" /\ outcome.error.name = "Error"

\* C13: every settled call ended with the parsed JSON or with an error of
\* the gateway; no other failure reaches the caller.
C13_TwoOutcomes ==
  gw.phase = "settled" => IsSuccess(gw.outcome) \/ IsGatewayError(gw.outcome)

\* the call was answered with a status of 200..299 and a JSON body
JsonReply ==
  /\ gw.phase = "settled"
  /\ ~gw.reply.failed
  /\ ResponseOk(gw.reply)
  /\ gw.reply.body.json

\* C14: on a 2xx reply with a JSON body the operation resolves with exactly
\* the parsed JSON value.
C14_JsonUnchanged ==
  JsonReply => gw.outcome = Resolved(gw.reply.body.value)

\* chatWithCSV answered 201 with a JSON object, which the caller received
C14_Witness ==
  /\ JsonReply
  /\ gw.op = "chatWithCSV"
  /\ gw.reply.status = 201
  /\ gw.reply.body.value.t = "object"
  /\ gw.outcome.settled = "resolved"
  /\ gw.outcome.value = gw.reply.body.value

\* the step puts exactly one request on the wire
OneMoreRequest ==
  /\ Len(wire') = Len(wire) + 1
  /\ SubSeq(wire', 1, Len(wire)) = wire

ParamOf(request, name) ==
  request.params[CHOOSE i \in 1..Len(request.params) :
                   request.params[i][1] = name][2]

\* what the caller supplied for the option, or the documented default
SuppliedOr(options, key, default) ==
  IF key \in DOMAIN options.fields THEN options.fields[key] ELSE default

\* C16: every optional query parameter carries the value the caller supplied,
\* and the documented default only when the caller supplied none.
C16_OptionsAsGiven ==
  /\ (gw.phase # "idle" /\ gw.op = "getComprehensiveResearch") =>
       /\ ParamOf(gw.requests[1], "include_raw_data") =
            JsToString(SuppliedOr(gw.options, "includeRawData", JBool(FALSE)))
       /\ ParamOf(gw.requests[1], "use_cache") =
            JsToString(SuppliedOr(gw.options, "useCache", JBool(TRUE)))
  /\ (gw.phase # "idle" /\ gw.op = "getCityOpportunities") =>
       /\ ParamOf(gw.requests[1], "include_analysis") =
            JsToString(SuppliedOr(gw.options, "includeAnalysis", JBool(TRUE)))
       /\ ParamOf(gw.requests[1], "max_opportunities") =
            JsToString(SuppliedOr(gw.options, "maxOpportunities", JNumber(5)))

\* the wire table: method, backend and path of every Gateway operation
WireTable ==
  [getComprehensiveResearch |->
     [method |-> "GET", base |-> API_BASE_URL,
      path |-> S("/api/comprehensive-research")],
   getCityOpportunities |->
     [method |-> "GET", base |-> API_BASE_URL,
      path |-> S("/api/city-opportunities")],
   getRawScrapedData |->
     [method |-> "GET", base |-> API_BASE_URL,
      path |-> S("/api/raw-scraped-data")],
   checkHealth |->
     [method |-> "GET", base |-> API_BASE_URL, path |-> S("/health")],
   uploadCSV |->
     [method |-> "POST", base |-> CSV_API_BASE_URL, path |-> S("/upload_csv")],
   chatWithCSV |->
     [method |-> "POST", base |-> CSV_API_BASE_URL, path |-> S("/chat")]]

\* the names of the fields or query parameters of a request, in order
FieldNames(request) ==
  [i \in 1..Len(request.params) |-> request.params[i][1]]

\* C17: every Gateway call sends one request with the method and path of the
\* wire table to its own backend: research calls to the research base URL,
\* CSV calls to the CSV base URL, chatWithCSV with the fields session_id and
\* user_message.
C17_WireTable ==
  gw.phase # "idle" =>
    /\ Len(gw.requests) = 1
    /\ gw.requests[1].method = WireTable[gw.op].method
    /\ gw.requests[1].base = WireTable[gw.op].base
    /\ gw.requests[1].path = WireTable[gw.op].path
    /\ gw.op \in ResearchOperations => gw.requests[1].base # CSV_API_BASE_URL
    /\ gw.op \in CsvOperations => gw.requests[1].base # API_BASE_URL
    /\ gw.op = "chatWithCSV" =>
         FieldNames(gw.requests[1]) = <<"session_id", "user_message">>

C17_Witness ==
  /\ gw.phase = "settled"
  /\ gw.op = "chatWithCSV"
  /\ gw.requests[1].method = "POST"
  /\ gw.requests[1].base = S("http://localhost:8001")
  /\ gw.requests[1].path = S("/chat")
  /\ FieldNames(gw.requests[1]) = <<"session_id", "user_message">>

\* C18: in the chat page at most one Gateway request is outstanding at any
\* time, and no step taken while isLoading is true, a refused send included,
\* issues a request or appends a user message.
C18_OneOutstanding ==
  [][/\ Cardinality(pending') <= 1
     /\ isLoading => /\ wire' = wire
                     /\ UserMessages' = UserMessages
                     /\ Len(messages') <= Len(messages)]_vars

\* a send is in progress and the attached file gives a second send something
\* to send
C18_Witness ==
  /\ csvPage
  /\ isLoading
  /\ Cardinality(pending) = 1
  /\ ~(trim(inputValue) = <<>> /\ attachedFile = NoFile)
  /\ Len(wire) = 1
  /\ Len(UserMessages) = 1

\* the step settles the send in progress
SettlesSend == pending # {} /\ pending' = {}

\* the send fails with that reply: the call is rejected, or the page reads a
\* property of a null result
Fails(send, reply) ==
  \/ OutcomeOf(send.op, reply).settled = "rejected"
  \/ /\ PropThrows(OutcomeOf(send.op, reply).value)
     /\ ~csvPage \/ send.op # "getComprehensiveResearch"

\* the message of that failure
FailureMessage(send, reply) ==
  IF OutcomeOf(send.op, reply).settled = "rejected"
  THEN OutcomeOf(send.op, reply).error.message
  ELSE IF csvPage THEN NullResultMessage ELSE NullKeysMessage

\* the last message of the chat after the step
ShownLast == messages'[Len(messages')]

\* the chat ends with an error message and there is something to send
CanSendAfterFailure ==
  /\ messages # <<>>
  /\ messages[Len(messages)].type = "error"
  /\ pending = {}
  /\ trim(inputValue) # <<>> \/ (csvPage /\ attachedFile # NoFile)

CallsChat ==
  /\ Len(wire') = Len(wire) + 1
  /\ wire'[Len(wire')].op = "chatWithCSV"

\* the session id the step sends
SessionSent == ParamOf(wire'[Len(wire')].request, "session_id")

\* message i closes an upload that uploadCSV resolved: the analysis of the
\* file, or the error of reading a property of a null result
IsUploadResult(i) ==
  \/ /\ messages[i].type = "assistant"
     /\ "dataType" \in DOMAIN messages[i]
     /\ messages[i].dataType = "csv"
  \/ /\ messages[i].type = "error"
     /\ messages[i].content = NullResultMessage
     /\ i > 1
     /\ messages[i - 1].type = "user"
     /\ messages[i - 1].hasAttachment

SuccessfulUploads == { i \in 1..Len(messages) : IsUploadResult(i) }

\* what the most recent successful uploadCSV returned
LastUploadResult ==
  IF messages[Max(SuccessfulUploads)].type = "error" THEN JNull
  ELSE messages[Max(SuccessfulUploads)].csvData

CsvUploaded ==
  \E i \in 1..Len(messages) :
    /\ messages[i].type = "assistant"
    /\ "dataType" \in DOMAIN messages[i]
    /\ messages[i].dataType = "csv"

\* C21: after a CSV has been uploaded successfully, a text-only send whose
\* message parses to a business type and a location still reaches
\* getComprehensiveResearch.
C21_ResearchAfterUpload ==
  [][(/\ csvPage
      /\ CsvUploaded
      /\ SendsMessage
      /\ attachedFile = NoFile
      /\ ~parseUserQuery(SentText).needsClarification) => CallsResearch]_vars

\* the file is a CSV file: by its MIME type or by the end of its name
IsCsvFile(file) ==
  file.type = S("text/csv") \/ endsWith(file.name, S(".csv"))

\* the files handed to uploadCSV so far
UploadedFiles(calls) ==
  { ParamOf(calls[i].request, "file") :
      i \in { j \in 1..Len(calls) : calls[j].op = "uploadCSV" } }

\* C22: only a CSV file is ever attached or passed to uploadCSV, and the
\* step that reports "Please select a CSV file" leaves the attached file
\* unchanged.
C22_OnlyCsvAttached ==
  [][/\ attachedFile' # NoFile => IsCsvFile(attachedFile')
     /\ \A file \in UploadedFiles(wire') : IsCsvFile(file)
     /\ (error' = SelectCsvMessage /\ error # SelectCsvMessage) =>
          /\ attachedFile' = attachedFile
          /\ UNCHANGED <<messages, wire, pending, csvSessionId>>]_vars

\* a file that is not a CSV file was selected while a CSV file was attached
\* and after an upload: the error is set and the attachment is the CSV file
C22_Witness ==
  /\ error = SelectCsvMessage
  /\ attachedFile = SheetFile
  /\ UploadedFiles(wire) = {CsvFile}

\* the words of s: the maximal runs of code units that are not white space,
\* as pairs of their first and last position
WordsOf(s) ==
  { w \in (1..Len(s)) \X (1..Len(s)) :
      /\ w[1] <= w[2]
      /\ \A k \in w[1]..w[2] : ~IsSpace(s[k])
      /\ w[1] = 1 \/ IsSpace(s[w[1] - 1])
      /\ w[2] = Len(s) \/ IsSpace(s[w[2] + 1]) }

\* the first code unit is its own upper case, every other its own lower case
IsTitleCased(word) ==
  /\ UpperTable[word[1]] = <<word[1]>>
  /\ \A k \in 2..Len(word) : LowerTable[word[k]] = <<word[k]>>

\* s starts with in, at or near followed by white space
HasLeadingPreposition(s) ==
  \E i \in 1..Len(Connectors) :
    /\ OccursAtI(s, Connectors[i], 1)
    /\ Len(s) > Len(Connectors[i])
    /\ IsSpace(s[Len(Connectors[i]) + 1])

\* C23: every white-space-separated word of a location parseUserQuery returns
\* is title-cased, whatever white space separates the words, and the location
\* starts with no in/at/near preposition.
C23_LocationTitleCased ==
  \A i \in 1..Len(results) :
    results[i].location # Null =>
      /\ \A w \in WordsOf(results[i].location) :
           IsTitleCased(SubSeq(results[i].location, w[1], w[2]))
      /\ ~HasLeadingPreposition(results[i].location)

(***************************************************************************)
(* Properties of CSVChart, checked under SpecChart.                        *)
(***************************************************************************)
\* a and b are the same string up to the case of their letters
EqualsIgnoreCase(a, b) ==
  /\ Len(a) = Len(b)
  /\ \A k \in 1..Len(a) : UpperTable[a[k]] = UpperTable[b[k]]

\* the type of the chart specification is that name, in any case
TypeIs(name) ==
  /\ Prop(chart.chartSpec, "type").t = "string"
  /\ EqualsIgnoreCase(Prop(chart.chartSpec, "type").s, S(name))

\* the data prop is missing or holds no row
DataMissingOrEmpty ==
  \/ chart.data \in {JUndefined, JNull}
  \/ chart.data.t = "array" /\ chart.data.length = 0

\* C24: CSVChart renders the placeholder when data is missing or empty,
\* whatever the type; otherwise it picks the branch from chartSpec.type
\* case-insensitively: a line chart for line, a bar chart for bar, a pie chart
\* for pie, the histogram for hist and histogram, and a bar chart for a
\* missing or unrecognised type.
C24_ChartBranch ==
  chart.phase = "rendered" =>
    IF DataMissingOrEmpty
    THEN /\ chart.rendered.view = "placeholder"
         /\ chart.rendered.text = S("No data available for this chart")
    ELSE /\ chart.rendered.view = "chart"
         /\ TypeIs("line") =>
              /\ chart.rendered.chart.branch = "line"
              /\ chart.rendered.chart.element = "LineChart"
         /\ TypeIs("bar") =>
              /\ chart.rendered.chart.branch = "bar"
              /\ chart.rendered.chart.element = "BarChart"
         /\ TypeIs("pie") =>
              /\ chart.rendered.chart.branch = "pie"
              /\ chart.rendered.chart.element = "PieChart"
         /\ (TypeIs("hist") \/ TypeIs("histogram")) =>
              /\ chart.rendered.chart.branch = "histogram"
              /\ chart.rendered.chart.rows = "histData"
         /\ ~(\E name \in {"line", "bar", "pie", "hist", "histogram"} :
                TypeIs(name)) =>
              /\ chart.rendered.chart.element = "BarChart"
              /\ chart.rendered.chart.rows = "data"

\* a chart of type HISTOGRAM with rows is rendered as the histogram
C24_Witness ==
  /\ chart.phase = "rendered"
  /\ chart.data = DataRows(2)
  /\ Prop(chart.chartSpec, "type") = JString(S("HISTOGRAM"))
  /\ chart.rendered.view = "chart"
  /\ chart.rendered.chart.branch = "histogram"

(***************************************************************************)
(* Further properties of the chat page, checked under Spec.                *)
(***************************************************************************)
\* the typing indicators in the chat
TypingMessages == SelectSeq(messages, LAMBDA m : m.type = "typing")

\* C25: the chat holds no typing indicator when isLoading is false and at
\* most one at any time; while it is there it is the last message and a send
\* awaits its call, so it is removed before the reply or the error message is
\* appended.
C25_TypingOnlyWhileLoading ==
  /\ ~isLoading => TypingMessages = <<>>
  /\ Len(TypingMessages) <= 1
  /\ TypingMessages # <<>> =>
       /\ messages[Len(messages)].type = "typing"
       /\ pending # {}

\* an upload was answered: its typing indicator is gone and the analysis is
\* the last message
C25_Witness ==
  /\ ~isLoading
  /\ Len(wire) = 1
  /\ wire[1].op = "uploadCSV"
  /\ Len(messages) = 2
  /\ messages[2].type = "assistant"
  /\ TypingMessages = <<>>

\* the step shows the analysis of an uploaded file
ShowsAnalysis ==
  /\ Len(messages') > 0
  /\ ShownLast.type = "assistant"
  /\ "dataType" \in DOMAIN ShownLast
  /\ ShownLast.dataType = "csv"

\* C26: an attached file stays attached until the user removes or replaces
\* it, or the upload of that very file completes; the analysis shown for an
\* upload names the file that was uploaded.
C26_FileStaysAttached ==
  [][/\ (attachedFile # NoFile /\ attachedFile' # attachedFile) =>
          \/ UNCHANGED <<messages, isLoading, csvSessionId, pending, wire>>
          \/ \E send \in pending :
               /\ send.op = "uploadCSV"
               /\ send.file = attachedFile
               /\ pending' = pending \ {send}
     /\ (SettlesSend /\ ShowsAnalysis) =>
          \A send \in pending :
            ShownLast.content =
              S("Here's the analysis of **") \o send.file.name \o S("**:")
    ]_vars

\* the step settles an upload
SettlesUpload ==
  /\ SettlesSend
  /\ \A send \in pending : send.op = "uploadCSV"

\* C27: a failed upload leaves the attached file and csvSessionId as they
\* were; csvSessionId changes, and an upload clears the attachment, only in
\* the step that shows the analysis of a successful upload, which stores the
\* session_id of its result.
C27_FailedUploadKeepsState ==
  [][/\ (SettlesUpload /\ ShownLast.type = "error") =>
          /\ attachedFile' = attachedFile
          /\ csvSessionId' = csvSessionId
     /\ csvSessionId' # csvSessionId =>
          /\ SettlesUpload
          /\ ShowsAnalysis
          /\ csvSessionId' = Prop(ShownLast.csvData, "session_id")
          /\ attachedFile' = NoFile
     /\ (SettlesUpload /\ attachedFile' # attachedFile) =>
          /\ ShowsAnalysis
          /\ attachedFile' = NoFile
    ]_vars

\* an upload failed after an earlier one succeeded: its file is still
\* attached and the session is the one of the earlier upload
C27_Witness ==
  /\ Len(wire) = 2
  /\ wire[1].op = "uploadCSV" /\ wire[2].op = "uploadCSV"
  /\ pending = {}
  /\ messages[Len(messages)].type = "error"
  /\ messages[Len(messages)].content = S("not found")
  /\ attachedFile = ParamOf(wire[2].request, "file")
  /\ csvSessionId = JString(S("s1"))

\* the messages of the chat that are not typing indicators, now and after
\* the step
Conversation == WithoutTyping(messages)
ConversationAfter == WithoutTyping(messages')

\* the message is a reply: an assistant message with data,
\* the clarification prompt, or an error message
IsReply(m) ==
  \/ m.type = "error"
  \/ /\ m.type = "assistant"
     /\ \/ "needsClarification" \in DOMAIN m
        \/ "data" \in DOMAIN m
        \/ "csvData" \in DOMAIN m
        \/ "csvChatData" \in DOMAIN m

\* C28: the conversation alternates user message and reply in send order: a
\* send in progress has appended its user message and no reply yet, a
\* completed send exactly one reply; messages other than typing indicators
\* are never removed or reordered, a step appends at most a user message and
\* its reply, and with empty trimmed input and no attachment a send changes
\* nothing.
C28_UserThenReply ==
  /\ [](/\ \A i \in 1..Len(Conversation) :
             IF i % 2 = 1 THEN Conversation[i].type = "user"
             ELSE IsReply(Conversation[i])
        /\ pending = {} => Len(Conversation) % 2 = 0
        /\ pending # {} => Len(Conversation) % 2 = 1)
  /\ [][/\ Len(ConversationAfter) >= Len(Conversation)
        /\ SubSeq(ConversationAfter, 1, Len(Conversation)) = Conversation
        /\ Len(UserMessages') <= Len(UserMessages) + 1
        /\ (trim(inputValue) = <<>> /\ attachedFile = NoFile
              /\ pending = {}) =>
             UNCHANGED <<messages, isLoading, pending, wire, csvSessionId>>
       ]_vars

\* two sends completed: a failed research and then a clarification
C28_Witness ==
  /\ pending = {}
  /\ Len(messages) = 4
  /\ messages[1].type = "user"
  /\ messages[2].type = "error"
  /\ messages[3].type = "user"
  /\ messages[4].type = "assistant"
  /\ "needsClarification" \in DOMAIN messages[4]

(***************************************************************************)
(* Further properties of parseUserQuery, checked under SpecParse.          *)
(***************************************************************************)
\* the connector in, at or near stands at p in q: a word between white
\* space, with text before it and after it
IsConnectorAt(q, p, word) ==
  /\ OccursAtI(q, word, p)
  /\ p > 1 /\ IsSpace(q[p - 1])
  /\ trim(SubSeq(q, 1, p - 1)) # <<>>
  /\ p + Len(word) <= Len(q)
  /\ IsSpace(q[p + Len(word)])
  /\ trim(SubSeq(q, p + Len(word), Len(q))) # <<>>

\* the connectors of q, as pairs of a position and an index of Connectors
ConnectorsOf(q) ==
  { c \in (1..Len(q)) \X (1..Len(Connectors)) :
      IsConnectorAt(q, c[1], Connectors[c[2]]) }

\* the last connector of q
LastConnector(q) ==
  CHOOSE c \in ConnectorsOf(q) : \A d \in ConnectorsOf(q) : d[1] <= c[1]

\* the text before and after a connector of q
TextBefore(q, c) == trim(SubSeq(q, 1, c[1] - 1))
TextAfter(q, c) == trim(SubSeq(q, c[1] + Len(Connectors[c[2]]), Len(q)))

====
